---- MODULE Spec2Model ----
(***************************************************************************)
(* Vema blog scraper (src/vemabot.py): the date normaliser, the tile       *)
(* extractor, the summary resolver, the pagination walker scrape_all and   *)
(* the three triggers (Scrape & show, Send to Make, GET /send).            *)
(*                                                                         *)
(* Text is a sequence of one-character strings.  A letter with a           *)
(* diacritic is written as its base letter followed by a mark, in one      *)
(* string: ' acute, ^ caron, : diaeresis, ~ circumflex, and "uo" for u     *)
(* with a ring; an upper-case letter has its base letter in upper case.    *)
(* A URL or a style attribute is a sequence of segments.                   *)
(***************************************************************************)
EXTENDS Integers, Sequences, FiniteSets, TLC

VARIABLES
  pc,        \* position of the script run: "idle", "loop", "returned", "raised", "finished"
  mode,      \* the trigger that started the run: "none", "show", "send", "api"
  hook,      \* TRUE when a webhook URL is configured (the text input is non-empty)
  page,      \* scrape_all's local page
  out,       \* scrape_all's local out, the accumulator
  hist,      \* history: the listing requests of this run and the upstream's answers
  posts,     \* the POST requests of this run, each the "articles" payload
  shown,     \* what the trigger reported: [kind, n]
  err,       \* the exception that ended the run, "" when none
  tick,      \* flips at every listing fetch
  calls,     \* history: the calls of scrape_all in this script run
  tile,      \* input of one parse_tile call (SpecTile)
  result,    \* its outcome
  word,      \* input of one month_from_word call (SpecMonth)
  month      \* its outcome, -1 before the call

vars == <<pc, mode, hook, page, out, hist, posts, shown, err, tick, calls, tile, result, word, month>>

-----------------------------------------------------------------------------
(* Bounds of the model *)

MaxTiles == 2
MaxPage == 2

-----------------------------------------------------------------------------
(* CONFIG *)

\* BASE_URL as segments: the scheme prefix str.startswith("http") tests, and the
\* rest.  Line 20 of the source lacks the closing quote of the literal; the value
\* modelled is the one the line means.
BASE_URL == <<"http", "s://www.vema.sk">>
START_PATH == "/sk-sk/svet-vema"
CutoffYear == 2024
CutoffMonth == 1
CutoffDay == 1
CUTOFF == [year |-> CutoffYear, month |-> CutoffMonth, day |-> CutoffDay]

MONTH_STEM ==
     (<<"l", "e", "d">> :> 1) @@ (<<"u", "n", "o">> :> 2) @@ (<<"u'", "n", "o">> :> 2)
  @@ (<<"b", "r", "e">> :> 3) @@ (<<"b", "r^", "e">> :> 3) @@ (<<"m", "a", "r">> :> 3)
  @@ (<<"d", "u", "b">> :> 4) @@ (<<"a", "p", "r">> :> 4)
  @@ (<<"k", "v", "e">> :> 5) @@ (<<"m", "a'", "j">> :> 5) @@ (<<"m", "a", "j">> :> 5)
  @@ (<<"c", "e", "r">> :> 6) @@ (<<"c^", "e", "r">> :> 6)
  @@ (<<"c", "v", "c">> :> 7) @@ (<<"c", "v", "e">> :> 7) @@ (<<"c^", "e", "c">> :> 7)
  @@ (<<"c^", "r", "v">> :> 7) @@ (<<"j", "u", "l">> :> 7) @@ (<<"j", "u'", "l">> :> 7)
  @@ (<<"s", "r", "p">> :> 8) @@ (<<"a", "u", "g">> :> 8)
  @@ (<<"z", "a", "r">> :> 9) @@ (<<"z", "a'", "r^">> :> 9) @@ (<<"s", "e", "p">> :> 9)
  @@ (<<"r", "i", "j">> :> 10) @@ (<<"r^", "i'", "j">> :> 10) @@ (<<"o", "k", "t">> :> 10)
  @@ (<<"l", "i", "s">> :> 11) @@ (<<"n", "o", "v">> :> 11)
  @@ (<<"p", "r", "o">> :> 12) @@ (<<"d", "e", "c">> :> 12)

-----------------------------------------------------------------------------
(* UTILITIES *)

\* str.lower() on one character.
Lower(c) ==
  CASE c = "A" -> "a" [] c = "A'" -> "a'" [] c = "A:" -> "a:" [] c = "B" -> "b"
    [] c = "C" -> "c" [] c = "C^" -> "c^" [] c = "D" -> "d" [] c = "D^" -> "d^"
    [] c = "E" -> "e" [] c = "E'" -> "e'" [] c = "E^" -> "e^" [] c = "F" -> "f"
    [] c = "G" -> "g" [] c = "H" -> "h" [] c = "I" -> "i" [] c = "I'" -> "i'"
    [] c = "J" -> "j" [] c = "K" -> "k" [] c = "L" -> "l" [] c = "L'" -> "l'"
    [] c = "L^" -> "l^" [] c = "M" -> "m" [] c = "N" -> "n" [] c = "N^" -> "n^"
    [] c = "O" -> "o" [] c = "O'" -> "o'" [] c = "O~" -> "o~" [] c = "P" -> "p"
    [] c = "Q" -> "q" [] c = "R" -> "r" [] c = "R^" -> "r^" [] c = "S" -> "s"
    [] c = "S^" -> "s^" [] c = "T" -> "t" [] c = "T^" -> "t^" [] c = "U" -> "u"
    [] c = "U'" -> "u'" [] c = "Uo" -> "uo" [] c = "V" -> "v" [] c = "W" -> "w"
    [] c = "X" -> "x" [] c = "Y" -> "y" [] c = "Y'" -> "y'" [] c = "Z" -> "z"
    [] c = "Z^" -> "z^" [] OTHER -> c

\* The chain of str.replace calls of month_from_word on one character.
FoldChar(c) ==
  CASE c = "a'" -> "a" [] c = "a:" -> "a"
    [] c = "c^" -> "c" [] c = "d^" -> "d" [] c = "e'" -> "e" [] c = "e^" -> "e"
    [] c = "i'" -> "i" [] c = "l^" -> "l" [] c = "l'" -> "l"
    [] c = "n^" -> "n" [] c = "o'" -> "o" [] c = "o~" -> "o"
    [] c = "r^" -> "r" [] c = "s^" -> "s" [] c = "t^" -> "t"
    [] c = "u'" -> "u" [] c = "uo" -> "u" [] c = "y'" -> "y" [] c = "z^" -> "z"
    [] OTHER -> c

\* s[:n]
Prefix(s, n) == SubSeq(s, 1, IF Len(s) < n THEN Len(s) ELSE n)

month_from_word(w) ==
  LET tx == [i \in 1..Len(w) |-> FoldChar(Lower(w[i]))]
      stem == Prefix(tx, 3)
  IN IF stem \in DOMAIN MONTH_STEM THEN MONTH_STEM[stem] ELSE 0

IsSpace(c) == c = " "

\* str.strip() and get_text(strip=True) of a single text node.
RECURSIVE LStrip(_)
LStrip(s) == IF s # <<>> /\ IsSpace(Head(s)) THEN LStrip(Tail(s)) ELSE s
RECURSIVE RStrip(_)
RStrip(s) ==
  IF s # <<>> /\ IsSpace(s[Len(s)]) THEN RStrip(SubSeq(s, 1, Len(s) - 1)) ELSE s
Strip(s) == RStrip(LStrip(s))

\* The first paragraph whose stripped text is non-empty, <<>> when there is none.
RECURSIVE FirstParagraph(_)
FirstParagraph(ps) ==
  IF ps = <<>> THEN <<>>
  ELSE IF Strip(Head(ps)) # <<>> THEN Strip(Head(ps)) ELSE FirstParagraph(Tail(ps))

\* summary_from_page on the upstream's answer for the article URL.  A failed
\* fetch raises inside the try block and is swallowed by "except Exception".
summary_from_page(a) ==
  IF ~a.ok THEN <<>>
  ELSE IF FirstParagraph(a.paras) # <<>> THEN FirstParagraph(a.paras)
  ELSE IF a.hasOg THEN Strip(a.og)
  ELSE IF a.hasDesc THEN Strip(a.desc)
  ELSE <<>>

-----------------------------------------------------------------------------
(* datetime *)

IsLeap(y) == (y % 4 = 0 /\ y % 100 # 0) \/ y % 400 = 0

DaysInMonth(y, m) ==
  IF m = 2 THEN (IF IsLeap(y) THEN 29 ELSE 28)
  ELSE IF m \in {4, 6, 9, 11} THEN 30 ELSE 31

\* datetime(year, month, day) raises ValueError unless this holds.
ValidDate(y, m, d) ==
  /\ y >= 1 /\ y <= 9999
  /\ m >= 1 /\ m <= 12
  /\ d >= 1 /\ d <= DaysInMonth(y, m)

\* a < b on datetimes at midnight
Before(a, b) ==
  \/ a.year < b.year
  \/ a.year = b.year /\ a.month < b.month
  \/ a.year = b.year /\ a.month = b.month /\ a.day < b.day

\* datetime.isoformat(): the fields of "YYYY-MM-DDT00:00:00"
isoformat(d) == <<d.year, d.month, d.day, 0, 0, 0>>
fromisoformat(s) == [year |-> s[1], month |-> s[2], day |-> s[3]]

-----------------------------------------------------------------------------
(* CORE PARSER *)

\* A tile of a listing page, as the selectors of parse_tile see it:
\*   link      ".blog__content h3 a" is found
\*   href      its href attribute, <<>> when missing or empty
\*   text      the text of the link
\*   dateli    the second li of ".blog__footer .blog__info ul" is found
\*   date_txt  its text: form "num" for "D. M. YYYY", "word" for "D. word YYYY",
\*             "other" for a text neither DATE_NUM nor DATE_WORD matches
\*   bg        ".blog__media-inner" is found;  hasStyle: it has a style attribute
\*   style     the style attribute
\*   article   the upstream's answer to a GET of the article URL
NoRecord == [title |-> <<>>, url |-> <<>>, image |-> <<>>, date |-> <<>>, summary |-> <<>>]
None == [tag |-> "none", rec |-> NoRecord]
ValueError == [tag |-> "raise", rec |-> NoRecord]
Some(r) == [tag |-> "rec", rec |-> r]

StartsWith(s, p) == Len(s) >= Len(p) /\ SubSeq(s, 1, Len(p)) = p

\* re.search(r"url\(([^)]+)\)", style): the group, <<>> when there is no match.
UrlToken(style) ==
  IF \E i \in 1..Len(style) : style[i] = "url(" /\ i + 2 <= Len(style) /\ style[i + 2] = ")"
  THEN LET i == CHOOSE j \in 1..Len(style) :
                  /\ style[j] = "url(" /\ j + 2 <= Len(style) /\ style[j + 2] = ")"
                  /\ \A k \in 1..(j - 1) :
                       ~(style[k] = "url(" /\ k + 2 <= Len(style) /\ style[k + 2] = ")")
       IN <<style[i + 1]>>
  ELSE <<>>

\* The day, month and year parse_tile hands to datetime(); month 0 when the
\* month word is not resolved, found = FALSE when neither pattern matches.
DateFields(dt) ==
  IF dt.form = "num"
  THEN [found |-> TRUE, day |-> dt.day, month |-> dt.month, year |-> dt.year]
  ELSE IF dt.form = "word"
  THEN [found |-> TRUE, day |-> dt.day, month |-> month_from_word(dt.word), year |-> dt.year]
  ELSE [found |-> FALSE, day |-> 0, month |-> 0, year |-> 0]

\* img of parse_tile
ImageOf(tok) == IF tok # <<>> THEN BASE_URL \o tok ELSE <<>>

\* url of parse_tile
UrlOf(href) == IF StartsWith(href, <<"http">>) THEN href ELSE BASE_URL \o href

\* Mutant of FromDate: "pub <= CUTOFF" in place of "pub < CUTOFF".
FromDateDropsCutoffDay(t, y, m, d) ==
  IF ~ValidDate(y, m, d) THEN ValueError
  ELSE IF Before([year |-> y, month |-> m, day |-> d], CUTOFF)
          \/ [year |-> y, month |-> m, day |-> d] = CUTOFF THEN None
  ELSE Some([title |-> Strip(t.text),
             url |-> UrlOf(t.href),
             image |-> ImageOf(IF t.bg /\ t.hasStyle THEN UrlToken(t.style) ELSE <<>>),
             date |-> isoformat([year |-> y, month |-> m, day |-> d]),
             summary |-> summary_from_page(t.article)])

\* Mutant of FromDate: summary_from_page without its try block, so that a
\* failed article fetch raises out of parse_tile.
FromDateSummaryUnguarded(t, y, m, d) ==
  IF ~ValidDate(y, m, d) THEN ValueError
  ELSE IF Before([year |-> y, month |-> m, day |-> d], CUTOFF) THEN None
  ELSE IF ~t.article.ok THEN [tag |-> "raise", rec |-> NoRecord]
  ELSE Some([title |-> Strip(t.text),
             url |-> UrlOf(t.href),
             image |-> ImageOf(IF t.bg /\ t.hasStyle THEN UrlToken(t.style) ELSE <<>>),
             date |-> isoformat([year |-> y, month |-> m, day |-> d]),
             summary |-> summary_from_page(t.article)])

\* parse_tile from "pub = datetime(year, month, day)" on
FromDate(t, y, m, d) ==
  IF ~ValidDate(y, m, d) THEN ValueError
  ELSE IF Before([year |-> y, month |-> m, day |-> d], CUTOFF) THEN None
  ELSE Some([title |-> Strip(t.text),
             url |-> UrlOf(t.href),
             image |-> ImageOf(IF t.bg /\ t.hasStyle THEN UrlToken(t.style) ELSE <<>>),
             date |-> isoformat([year |-> y, month |-> m, day |-> d]),
             summary |-> summary_from_page(t.article)])

\* parse_tile from the date patterns on
FromFields(t, f) ==
  IF ~f.found THEN None
  ELSE IF t.date_txt.form = "word" /\ f.month = 0 THEN None
  ELSE FromDate(t, f.year, f.month, f.day)

parse_tile(t) ==
  IF ~t.link \/ t.href = <<>> THEN None
  ELSE IF ~t.dateli THEN None
  ELSE FromFields(t, DateFields(t.date_txt))

\* The list comprehension of scrape_page over the parsed tiles, in order: it
\* raises when the parse of a tile raised, otherwise it keeps the records.
IsRecord(a) == a.tag = "rec"
Records(kept) == [i \in 1..Len(kept) |-> kept[i].rec]
Collect(parsed) ==
  IF \E i \in 1..Len(parsed) : parsed[i].tag = "raise"
  THEN [error |-> "ValueError", items |-> <<>>]
  ELSE [error |-> "", items |-> Records(SelectSeq(parsed, IsRecord))]

\* scrape_page on the upstream's answer resp = [ok, tiles]: requests.get raises
\* when the transport fails (ok = FALSE).
scrape_page(resp) ==
  IF ~resp.ok THEN [error |-> "FetchFailed", items |-> <<>>]
  ELSE Collect([i \in 1..Len(resp.tiles) |-> parse_tile(resp.tiles[i])])

\* min(datetime.fromisoformat(a["date"]) for a in items), items non-empty
Earliest(ds) == CHOOSE d \in ds : \A e \in ds : ~Before(e, d)
MinDate(items) == Earliest({fromisoformat(items[i].date) : i \in 1..Len(items)})

\* path of scrape_all: News_page = 0 stands for the bare listing path.
PathOf(p) == [path |-> START_PATH, News_page |-> IF p = 1 THEN 0 ELSE p]

-----------------------------------------------------------------------------
(* Inputs: what the upstream serves *)

Num(d, m, y) == [form |-> "num", day |-> d, month |-> m, word |-> <<>>, year |-> y]
Word(d, w, y) == [form |-> "word", day |-> d, month |-> 0, word |-> w, year |-> y]
NoPattern == [form |-> "other", day |-> 0, month |-> 0, word |-> <<>>, year |-> 0]

ArticleDown == [ok |-> FALSE, paras |-> <<>>, hasOg |-> FALSE, og |-> <<>>,
                hasDesc |-> FALSE, desc |-> <<>>]
Article(ps, hasOg, og, hasDesc, desc) ==
  [ok |-> TRUE, paras |-> ps, hasOg |-> hasOg, og |-> og, hasDesc |-> hasDesc, desc |-> desc]

CzNominative ==
  << <<"l", "e", "d", "e", "n">>,
     <<"u'", "n", "o", "r">>,
     <<"b", "r^", "e", "z", "e", "n">>,
     <<"d", "u", "b", "e", "n">>,
     <<"k", "v", "e^", "t", "e", "n">>,
     <<"c^", "e", "r", "v", "e", "n">>,
     <<"c^", "e", "r", "v", "e", "n", "e", "c">>,
     <<"s", "r", "p", "e", "n">>,
     <<"z", "a'", "r^", "i'">>,
     <<"r^", "i'", "j", "e", "n">>,
     <<"l", "i", "s", "t", "o", "p", "a", "d">>,
     <<"p", "r", "o", "s", "i", "n", "e", "c">> >>
CzGenitive ==
  << <<"l", "e", "d", "n", "a">>,
     <<"u'", "n", "o", "r", "a">>,
     <<"b", "r^", "e", "z", "n", "a">>,
     <<"d", "u", "b", "n", "a">>,
     <<"k", "v", "e^", "t", "n", "a">>,
     <<"c^", "e", "r", "v", "n", "a">>,
     <<"c^", "e", "r", "v", "e", "n", "c", "e">>,
     <<"s", "r", "p", "n", "a">>,
     <<"z", "a'", "r^", "i'">>,
     <<"r^", "i'", "j", "n", "a">>,
     <<"l", "i", "s", "t", "o", "p", "a", "d", "u">>,
     <<"p", "r", "o", "s", "i", "n", "c", "e">> >>
SkNominative ==
  << <<"j", "a", "n", "u", "a'", "r">>,
     <<"f", "e", "b", "r", "u", "a'", "r">>,
     <<"m", "a", "r", "e", "c">>,
     <<"a", "p", "r", "i'", "l">>,
     <<"m", "a'", "j">>,
     <<"j", "u'", "n">>,
     <<"j", "u'", "l">>,
     <<"a", "u", "g", "u", "s", "t">>,
     <<"s", "e", "p", "t", "e", "m", "b", "e", "r">>,
     <<"o", "k", "t", "o'", "b", "e", "r">>,
     <<"n", "o", "v", "e", "m", "b", "e", "r">>,
     <<"d", "e", "c", "e", "m", "b", "e", "r">> >>
SkGenitive ==
  << <<"j", "a", "n", "u", "a'", "r", "a">>,
     <<"f", "e", "b", "r", "u", "a'", "r", "a">>,
     <<"m", "a", "r", "c", "a">>,
     <<"a", "p", "r", "i'", "l", "a">>,
     <<"m", "a'", "j", "a">>,
     <<"j", "u'", "n", "a">>,
     <<"j", "u'", "l", "a">>,
     <<"a", "u", "g", "u", "s", "t", "a">>,
     <<"s", "e", "p", "t", "e", "m", "b", "r", "a">>,
     <<"o", "k", "t", "o'", "b", "r", "a">>,
     <<"n", "o", "v", "e", "m", "b", "r", "a">>,
     <<"d", "e", "c", "e", "m", "b", "r", "a">> >>

MonthTables == {CzNominative, CzGenitive, SkNominative, SkGenitive}
MonthWords == {t[m] : t \in MonthTables, m \in 1..12}

\* A month word as a heading prints it: first letter in upper case.
Capital(c) ==
  CASE c = "j" -> "J" [] c = "f" -> "F" [] c = "m" -> "M" [] c = "a" -> "A"
    [] c = "s" -> "S" [] c = "o" -> "O" [] c = "n" -> "N" [] c = "d" -> "D"
    [] c = "l" -> "L" [] c = "u'" -> "U'" [] c = "b" -> "B" [] c = "k" -> "K"
    [] c = "c^" -> "C^" [] c = "z" -> "Z" [] c = "r^" -> "R^" [] c = "p" -> "P"
    [] OTHER -> c
Capitalised(w) == <<Capital(Head(w))>> \o Tail(w)

\* Words DATE_WORD matches that are no month of either language.
OtherWords ==
  { <<"x", "y", "z">>, <<"a", "b">>, <<"v", "e", "m", "a">>,
    <<"c^", "l", "a'", "n", "e", "k">>, <<"r", "o", "k", "u">>,
    <<"t", "y'", "z^", "d", "e", "n^">> }
Words == MonthWords \cup {Capitalised(w) : w \in MonthWords} \cup OtherWords

\* The stem month_from_word looks up
FoldedStem(w) == Prefix([i \in 1..Len(w) |-> FoldChar(Lower(w[i]))], 3)

DateTexts ==
  { Num(1, 5, 2025), Num(15, 4, 2025), Num(1, 1, 2024), Num(31, 12, 2023),
    Num(20, 12, 2023), Num(29, 2, 2024), Num(31, 4, 2024), Num(29, 2, 2023),
    Num(15, 13, 2024), Num(0, 5, 2024),
    Word(15, CzGenitive[3], 2024), Word(31, SkGenitive[3], 2024),
    Word(16, SkNominative[5], 2025), Word(30, SkGenitive[11], 2023),
    Word(15, <<"x", "y", "z">>, 2024), Word(31, SkGenitive[4], 2024),
    NoPattern }

Hrefs == { <<>>, <<"/clanok">>, <<"http", "s://www.vema.sk", "/clanok">> }
LinkTexts == { <<>>, <<" ">>, <<" ", "A", " ">> }
Styles == { <<>>, <<"background-image:", "url(", "/img.jpg", ")">> }
Articles ==
  { ArticleDown,
    Article(<<>>, FALSE, <<>>, FALSE, <<>>),
    Article(<< <<" ">>, <<"S">> >>, TRUE, <<"O">>, FALSE, <<>>),
    Article(<<>>, TRUE, <<"O", " ">>, TRUE, <<"D">>),
    Article(<<>>, TRUE, <<>>, TRUE, <<"D">>),
    Article(<< <<" ">> >>, FALSE, <<>>, TRUE, <<"D">>) }

\* Every tile parse_tile is tried on (SpecTile)
AllTiles ==
  [ link : BOOLEAN, href : Hrefs, text : LinkTexts, dateli : BOOLEAN,
    date_txt : DateTexts, bg : BOOLEAN, hasStyle : BOOLEAN, style : Styles,
    article : Articles ]

\* The tiles of the listing pages the walker is run on (Spec, SpecLive)
TileFresh ==
  [ link |-> TRUE, href |-> <<"/clanok">>, text |-> <<"A">>, dateli |-> TRUE,
    date_txt |-> Num(1, 5, 2025), bg |-> TRUE, hasStyle |-> TRUE,
    style |-> <<"background-image:", "url(", "/img.jpg", ")">>,
    article |-> Article(<< <<"S">> >>, FALSE, <<>>, FALSE, <<>>) ]
TileAtCutoff ==
  [ link |-> TRUE, href |-> <<"http", "s://www.vema.sk", "/clanok">>, text |-> <<" ">>,
    dateli |-> TRUE, date_txt |-> Num(1, 1, 2024), bg |-> FALSE, hasStyle |-> FALSE,
    style |-> <<>>, article |-> ArticleDown ]
TileOld ==
  [ link |-> TRUE, href |-> <<"/clanok">>, text |-> <<"C">>, dateli |-> TRUE,
    date_txt |-> Num(20, 12, 2023), bg |-> TRUE, hasStyle |-> FALSE,
    style |-> <<>>, article |-> ArticleDown ]
TileBadDay ==
  [ link |-> TRUE, href |-> <<"/clanok">>, text |-> <<"D">>, dateli |-> TRUE,
    date_txt |-> Num(31, 4, 2024), bg |-> TRUE, hasStyle |-> FALSE,
    style |-> <<>>, article |-> ArticleDown ]
Tiles == {TileFresh, TileAtCutoff, TileOld, TileBadDay}

SeqsUpTo(S, n) == UNION {[1..k -> S] : k \in 0..n}
Pages == SeqsUpTo(Tiles, MaxTiles)
TransportFailure == [ok |-> FALSE, tiles |-> <<>>]
Responses == {TransportFailure} \cup {[ok |-> TRUE, tiles |-> p] : p \in Pages}

-----------------------------------------------------------------------------
(* The script run *)

Nothing == [kind |-> "nothing", n |-> 0]
NoTile == [ link |-> FALSE, href |-> <<>>, text |-> <<>>, dateli |-> FALSE,
            date_txt |-> NoPattern, bg |-> FALSE, hasStyle |-> FALSE, style |-> <<>>,
            article |-> ArticleDown ]
Pending == [tag |-> "pending", rec |-> NoRecord]

Idle ==
  /\ pc = "idle" /\ mode = "none"
  /\ page = 1 /\ out = <<>> /\ hist = <<>> /\ posts = <<>>
  /\ shown = Nothing /\ err = "" /\ tick = 0 /\ calls = 0

Init ==
  /\ Idle
  /\ hook \in BOOLEAN
  /\ tile = NoTile /\ result = Pending
  /\ word = <<>> /\ month = -1

pure == <<tile, result, word, month>>

\* out, page = [], 1 of scrape_all
EnterScrapeAll(m) ==
  /\ mode' = m
  /\ pc' = "loop"
  /\ page' = 1 /\ out' = <<>>
  /\ calls' = calls + 1
  /\ UNCHANGED <<hook, hist, posts, shown, err, tick, pure>>

\* if st.button("Scrape & show"): ... scrape_all
ClickShow ==
  /\ pc = "idle"
  /\ EnterScrapeAll("show")

\* if st.button("Send to Make") and hook: ... scrape_all
ClickSend ==
  /\ pc = "idle"
  /\ IF hook THEN EnterScrapeAll("send")
     ELSE /\ mode' = "send" /\ pc' = "finished"
          /\ UNCHANGED <<hook, page, out, hist, posts, shown, err, tick, calls, pure>>

\* GET /send: send_now up to its call of scrape_all
GetSend ==
  /\ pc = "idle"
  /\ IF hook THEN EnterScrapeAll("api")
     ELSE /\ mode' = "api" /\ pc' = "finished"
          /\ shown' = [kind |-> "error", n |-> 0]
          /\ UNCHANGED <<hook, page, out, hist, posts, err, tick, calls, pure>>

\* Mutant of Decide: a failed pass returns the records accumulated so far.
DecideReturnsPartial(got, h) ==
  IF got.error # ""
  THEN [pc |-> "returned", err |-> "", out |-> out, page |-> page, hist |-> h]
  ELSE IF got.items = <<>>
  THEN [pc |-> "returned", err |-> "", out |-> out, page |-> page, hist |-> h]
  ELSE IF Before(MinDate(got.items), CUTOFF)
  THEN [pc |-> "returned", err |-> "", out |-> out \o got.items, page |-> page, hist |-> h]
  ELSE [pc |-> "loop", err |-> "", out |-> out \o got.items, page |-> page + 1, hist |-> h]

\* Mutant of Decide: a page with no items does not end the loop.
DecideIgnoresEmptyPage(got, h) ==
  IF got.error # ""
  THEN [pc |-> "raised", err |-> got.error, out |-> <<>>, page |-> page, hist |-> h]
  ELSE IF got.items = <<>>
  THEN [pc |-> "loop", err |-> "", out |-> out, page |-> page + 1, hist |-> h]
  ELSE IF Before(MinDate(got.items), CUTOFF)
  THEN [pc |-> "returned", err |-> "", out |-> out \o got.items, page |-> page, hist |-> h]
  ELSE [pc |-> "loop", err |-> "", out |-> out \o got.items, page |-> page + 1, hist |-> h]

\* Mutant of Decide: the items of a page go in front of the accumulator.
DecidePrepends(got, h) ==
  IF got.error # ""
  THEN [pc |-> "raised", err |-> got.error, out |-> <<>>, page |-> page, hist |-> h]
  ELSE IF got.items = <<>>
  THEN [pc |-> "returned", err |-> "", out |-> out, page |-> page, hist |-> h]
  ELSE IF Before(MinDate(got.items), CUTOFF)
  THEN [pc |-> "returned", err |-> "", out |-> got.items \o out, page |-> page, hist |-> h]
  ELSE [pc |-> "loop", err |-> "", out |-> got.items \o out, page |-> page + 1, hist |-> h]

\* The rest of one pass of the while loop of scrape_all, given what
\* scrape_page gave (got) and the requests so far (h).
Decide(got, h) ==
  IF got.error # ""
  THEN [pc |-> "raised", err |-> got.error, out |-> <<>>, page |-> page, hist |-> h]
  ELSE IF got.items = <<>>
  THEN [pc |-> "returned", err |-> "", out |-> out, page |-> page, hist |-> h]
  ELSE IF Before(MinDate(got.items), CUTOFF)
  THEN [pc |-> "returned", err |-> "", out |-> out \o got.items, page |-> page, hist |-> h]
  ELSE [pc |-> "loop", err |-> "", out |-> out \o got.items, page |-> page + 1, hist |-> h]

\* The state scrape_all is in after one pass of its while loop in which the
\* upstream answers the listing request with resp.
AfterPass(resp) ==
  Decide(scrape_page(resp), Append(hist, [req |-> PathOf(page), resp |-> resp]))

Become(s) ==
  /\ pc' = s.pc /\ err' = s.err /\ out' = s.out /\ page' = s.page /\ hist' = s.hist

\* One pass of the while loop of scrape_all
ScrapePass ==
  /\ pc = "loop"
  /\ page <= MaxPage
  /\ \E resp \in Responses : Become(AfterPass(resp))
  /\ tick' = 1 - tick /\ calls' = calls
  /\ UNCHANGED <<mode, hook, posts, shown, pure>>

\* st.dataframe(pd.DataFrame(data))
ShowTable ==
  /\ pc = "returned" /\ mode = "show"
  /\ shown' = [kind |-> "table", n |-> Len(out)]
  /\ pc' = "finished"
  /\ UNCHANGED <<mode, hook, page, out, hist, posts, err, tick, calls, pure>>

\* Mutant of PostFromButton: one POST per record.
PostFromButtonPerRecord ==
  /\ pc = "returned" /\ mode = "send"
  /\ posts' = posts \o [i \in 1..Len(out) |-> <<out[i]>>]
  /\ \E delivered \in BOOLEAN :
       shown' = IF delivered THEN [kind |-> "sent", n |-> Len(out)]
                ELSE [kind |-> "post failed", n |-> 0]
  /\ pc' = "finished"
  /\ UNCHANGED <<mode, hook, page, out, hist, err, tick, calls, pure>>

\* The try block of the Send to Make handler; delivered = FALSE when
\* requests.post raises.
PostFromButton ==
  /\ pc = "returned" /\ mode = "send"
  /\ posts' = Append(posts, out)
  /\ \E delivered \in BOOLEAN :
       shown' = IF delivered THEN [kind |-> "sent", n |-> Len(out)]
                ELSE [kind |-> "post failed", n |-> 0]
  /\ pc' = "finished"
  /\ UNCHANGED <<mode, hook, page, out, hist, err, tick, calls, pure>>

\* send_now after scrape_all: the POST is outside any try block.
PostFromApi ==
  /\ pc = "returned" /\ mode = "api"
  /\ posts' = Append(posts, out)
  /\ \E delivered \in BOOLEAN :
       IF delivered
       THEN /\ shown' = [kind |-> "sent", n |-> Len(out)]
            /\ pc' = "finished" /\ err' = err
       ELSE /\ shown' = shown
            /\ pc' = "raised" /\ err' = "PostFailed"
  /\ UNCHANGED <<mode, hook, page, out, hist, tick, calls, pure>>

\* The next interaction runs the script from the top.
Rerun ==
  /\ pc \in {"finished", "raised"}
  /\ pc' = "idle" /\ mode' = "none"
  /\ page' = 1 /\ out' = <<>> /\ hist' = <<>> /\ posts' = <<>>
  /\ shown' = Nothing /\ err' = "" /\ tick' = 0 /\ calls' = 0
  /\ UNCHANGED <<hook, pure>>

Next ==
  \/ ClickShow
  \/ ClickSend
  \/ GetSend
  \/ ScrapePass
  \/ ShowTable
  \/ PostFromButton
  \/ PostFromApi
  \/ Rerun

Spec == Init /\ [][Next]_vars

-----------------------------------------------------------------------------
(* One call of parse_tile *)

InitTile ==
  /\ Idle /\ hook = FALSE
  /\ tile \in AllTiles /\ result = Pending
  /\ word = <<>> /\ month = -1

ParseTile ==
  /\ result = Pending
  /\ result' = parse_tile(tile)
  /\ UNCHANGED <<pc, mode, hook, page, out, hist, posts, shown, err, tick, calls, tile, word, month>>

SpecTile == InitTile /\ [][ParseTile]_vars

(* One call of month_from_word *)

InitMonth ==
  /\ Idle /\ hook = FALSE
  /\ tile = NoTile /\ result = Pending
  /\ word \in Words /\ month = -1

MonthFromWord ==
  /\ month = -1
  /\ month' = month_from_word(word)
  /\ UNCHANGED <<pc, mode, hook, page, out, hist, posts, shown, err, tick, calls, tile, result, word>>

SpecMonth == InitMonth /\ [][MonthFromWord]_vars

-----------------------------------------------------------------------------
(* The walk with no bound on the number of pages.  scrape_all has no page  *)
(* ceiling, and its exit tests read only the items of the page just        *)
(* fetched; page, out and hist grow without bound.  To keep the state      *)
(* finite, page numbers above MaxPage are identified with MaxPage, and     *)
(* hist and out keep the last page only.  tick tells one pass from the     *)
(* next.                                                                   *)

Folded(s) ==
  [s EXCEPT !.page = IF s.page > MaxPage THEN MaxPage ELSE s.page,
            !.hist = <<s.hist[Len(s.hist)]>>,
            !.out = SubSeq(s.out, Len(out) + 1, Len(s.out))]

ScrapePassUnbounded ==
  /\ pc = "loop"
  /\ \E resp \in Responses : Become(Folded(AfterPass(resp)))
  /\ tick' = 1 - tick /\ calls' = calls
  /\ UNCHANGED <<mode, hook, posts, shown, pure>>

NextLive ==
  \/ ClickShow
  \/ ClickSend
  \/ GetSend
  \/ ScrapePassUnbounded
  \/ ShowTable
  \/ PostFromButton
  \/ PostFromApi
  \/ Rerun

\* The script is single-threaded and every request has a timeout: a pass of
\* the loop that can be taken is taken.
SpecLive == Init /\ [][NextLive]_vars /\ WF_vars(ScrapePassUnbounded)

-----------------------------------------------------------------------------
(* Properties *)

Last(s) == s[Len(s)]

\* The run was ended by an exception raised inside scrape_all.
ScrapeRaised == pc = "raised" /\ err \in {"FetchFailed", "ValueError"}

\* The tile has a headline link with a target and a date text that resolves to
\* a calendar date.
Dated(t) ==
  /\ t.link /\ t.href # <<>> /\ t.dateli
  /\ DateFields(t.date_txt).found
  /\ ValidDate(DateFields(t.date_txt).year, DateFields(t.date_txt).month,
               DateFields(t.date_txt).day)
DateOf(t) ==
  [year |-> DateFields(t.date_txt).year, month |-> DateFields(t.date_txt).month,
   day |-> DateFields(t.date_txt).day]
OnOrAfterCutoff(d) ==
  \/ d.year > CutoffYear
  \/ d.year = CutoffYear /\ d.month > CutoffMonth
  \/ d.year = CutoffYear /\ d.month = CutoffMonth /\ d.day >= CutoffDay
Qualifies(t) == Dated(t) /\ OnOrAfterCutoff(DateOf(t))

\* The tiles of the listing pages served so far, in page order.
RECURSIVE TilesServed(_)
TilesServed(h) ==
  IF h = <<>> THEN <<>> ELSE Head(h).resp.tiles \o TilesServed(Tail(h))

\* The records of the listing pages served so far, in page order.
RECURSIVE Survivors(_)
Survivors(h) ==
  IF h = <<>> THEN <<>> ELSE scrape_page(Head(h).resp).items \o Survivors(Tail(h))

DatesOf(recs) == [i \in 1..Len(recs) |-> recs[i].date]
IsoDate(d) == <<d.year, d.month, d.day, 0, 0, 0>>
IsoDates(ts) == [i \in 1..Len(ts) |-> IsoDate(DateOf(ts[i]))]
QualifyingDates(ts) == IsoDates(SelectSeq(ts, Qualifies))

(* C1: the walker halts exactly when a fetched page has zero tiles or holds *)
(* a tile dated strictly before the cutoff: no page is fetched after such a *)
(* page, and the walker does not halt on any other page.                    *)
HaltCondition(resp) ==
  /\ resp.ok
  /\ \/ resp.tiles = <<>>
     \/ \E i \in 1..Len(resp.tiles) :
          Dated(resp.tiles[i]) /\ ~OnOrAfterCutoff(DateOf(resp.tiles[i]))
C1_HaltsExactlyAtCutoffOrEmptyPage ==
  /\ \A i \in 1..(Len(hist) - 1) : ~HaltCondition(hist[i].resp)
  /\ (pc = "loop" /\ hist # <<>>) => ~HaltCondition(Last(hist).resp)
  /\ (pc = "returned") => HaltCondition(Last(hist).resp)

(* C2: a tile with a headline link and a date that resolves to a calendar   *)
(* date has a record in the output if and only if the date is on or after   *)
(* the cutoff (the cutoff day itself is kept), so every record of the       *)
(* accumulator is dated on or after the cutoff.                             *)
C2_RecordIffOnOrAfterCutoff ==
  /\ (result # Pending /\ Dated(tile)) =>
        (result.tag = "rec" <=> OnOrAfterCutoff(DateOf(tile)))
  /\ \A i \in 1..Len(out) : OnOrAfterCutoff(fromisoformat(out[i].date))
  /\ ~ScrapeRaised => DatesOf(out) = QualifyingDates(TilesServed(hist))
C2_Witness ==
  /\ pc = "loop" /\ Len(hist) = 2
  /\ \E i \in 1..Len(out) : fromisoformat(out[i].date) = CUTOFF
  /\ \E i \in 1..Len(TilesServed(hist)) : ~Qualifies(TilesServed(hist)[i])

(* C3: a tile whose date does not parse (no pattern, unknown month word,    *)
(* invalid calendar value) is skipped and nothing else happens: the run is  *)
(* not ended by it, and the other tiles of the page have their records.     *)
C3_BadDateSkipsOneTile ==
  /\ err # "ValueError"
  /\ (hist # <<>> /\ Last(hist).resp.ok /\ pc # "idle") =>
        DatesOf(out) = QualifyingDates(TilesServed(hist))

(* C4: every record in the output of scrape_all has a non-empty title and a *)
(* non-empty url.                                                           *)
C4_TitleAndUrlMandatory ==
  \A i \in 1..Len(out) : out[i].title # <<>> /\ out[i].url # <<>>

(* C5: a transport failure on a listing page ends the run: the failed fetch *)
(* is the last request, scrape_all returns no record, and no POST is made.  *)
C5_FetchFailureIsFatal ==
  \A i \in 1..Len(hist) :
    ~hist[i].resp.ok =>
      /\ i = Len(hist)
      /\ pc = "raised" /\ err = "FetchFailed"
      /\ out = <<>> /\ posts = <<>> /\ shown = Nothing
C5_Witness ==
  /\ pc = "raised" /\ err = "FetchFailed" /\ mode = "send"
  /\ Len(hist) = 2 /\ Survivors(SubSeq(hist, 1, 1)) # <<>>

(* C6: summary_from_page never raises: whatever the article fetch gives,    *)
(* parse_tile gives what it gives with a working article page, except for   *)
(* the summary, which is empty when the fetch fails or no content is found. *)
WorkingArticle == Article(<< <<"S">> >>, FALSE, <<>>, FALSE, <<>>)
NoContent(a) ==
  /\ \A i \in 1..Len(a.paras) : \A j \in 1..Len(a.paras[i]) : a.paras[i][j] = " "
  /\ ~a.hasOg \/ \A j \in 1..Len(a.og) : a.og[j] = " "
  /\ ~a.hasDesc \/ \A j \in 1..Len(a.desc) : a.desc[j] = " "
Reference == parse_tile([tile EXCEPT !.article = WorkingArticle])
C6_SummaryFailureKeepsRecord ==
  result # Pending =>
    /\ result.tag = Reference.tag
    /\ result.rec.title = Reference.rec.title /\ result.rec.url = Reference.rec.url
    /\ result.rec.image = Reference.rec.image /\ result.rec.date = Reference.rec.date
    /\ (result.tag = "rec" /\ (~tile.article.ok \/ NoContent(tile.article))) =>
          result.rec.summary = <<>>
C6_Witness ==
  /\ result.tag = "rec" /\ ~tile.article.ok
  /\ result.rec.title # <<>> /\ result.rec.image # <<>>

(* C7: every Czech and Slovak month word, nominative and genitive, resolves *)
(* to its month number, and a word whose folded stem is no key of           *)
(* MONTH_STEM resolves to 0.                                                *)
C7_MonthWordsResolve ==
  month # -1 =>
    /\ \A t \in MonthTables : \A m \in 1..12 : word = t[m] => month = m
    /\ FoldedStem(word) \notin DOMAIN MONTH_STEM => month = 0

(* C8: every run eventually completes or raises, whatever the upstream      *)
(* serves.                                                                  *)
C8_EveryRunEnds == (pc = "loop") ~> (pc # "loop")

(* C8 as amended: a run that never ends is one in which the upstream        *)
(* serves, again and again, a listing page with a surviving record.         *)
LastPageSurvived ==
  pc = "loop" /\ hist # <<>> /\ scrape_page(Last(hist).resp).items # <<>>
C8_EndsUnlessPagesKeepSurviving == <>[](pc = "loop") => []<>LastPageSurvived
C8_Witness ==
  /\ pc = "returned" /\ page = MaxPage /\ tick = 1
  /\ Last(hist).resp.ok /\ Last(hist).resp.tiles = <<>>

(* C9: a send action with a webhook configured calls scrape_all once and    *)
(* then makes one POST, whose payload is the record sequence of that        *)
(* traversal; the count reported is the length of that payload; with no     *)
(* webhook there is no POST.                                                *)
C9_OneTraversalOnePost ==
  /\ ~hook => posts = <<>>
  /\ Len(posts) <= 1
  /\ posts # <<>> =>
       /\ mode \in {"send", "api"} /\ calls = 1
       /\ posts[1] = Survivors(hist)
  /\ (pc = "finished" /\ mode \in {"send", "api"} /\ hook) => Len(posts) = 1
  /\ shown.kind = "sent" => (Len(posts) = 1 /\ shown.n = Len(posts[1]))
C9_Witness ==
  /\ pc = "finished" /\ mode = "api" /\ shown.kind = "sent"
  /\ Len(hist) = 2 /\ Len(posts[1]) >= 2

(* C10: the listing pages are requested in the order 1, 2, 3, ..., page 1   *)
(* by the bare path and page N > 1 with News_page = N, each once, and the   *)
(* accumulator is the concatenation of the records of the pages fetched so  *)
(* far, in page order and within a page in tile order.                      *)
C10_PagesInOrderAccumulatorIsConcatenation ==
  /\ \A i \in 1..Len(hist) :
       /\ hist[i].req.path = START_PATH
       /\ hist[i].req.News_page = (IF i = 1 THEN 0 ELSE i)
  /\ pc = "loop" => page = Len(hist) + 1
  /\ ~ScrapeRaised => out = Survivors(hist)
C10_Witness ==
  /\ pc = "loop" /\ Len(hist) = 2 /\ Len(out) >= 3
  /\ out[1] # out[Len(out)]

====
